---- MODULE Spec2Model ----
(***************************************************************************)
(* ipcamcorder (src/ipcamcorder.py): one Recorder thread per channel pulls *)
(* frames from an IPCamera, writes them into rotating video segments and   *)
(* keeps a bounded number of segment files; main() starts the threads,     *)
(* waits for an interrupt, then sets every quit flag and joins.            *)
(*                                                                         *)
(* Threads interleave at every access to state another thread can touch    *)
(* (the quit Event, the clock).  Objects whose last reference is dropped   *)
(* are released at that point (reference counting): a VideoWriter is       *)
(* closed when `video` is rebound and when run()'s frame is torn down.     *)
(***************************************************************************)
EXTENDS Integers, FiniteSets, Sequences, TLC

\* ---------------------------------------------------------------- bounds
MinClock == 8       \* first value of the wall clock (seconds)
MaxClock == 11      \* the clock is not advanced beyond this value
MaxOld == 2         \* files left in the directory by earlier runs
MaxCache == 2       \* largest configured `cache`
MaxDuration == 1    \* largest configured segment duration (seconds)
MaxTokens == 2      \* longest list of channel tokens on the command line
MaxPeriod == 2      \* largest 1/fps, in units of the pacing clock
MaxFetch == 3       \* longest next_frame call, in the same units
MaxConsume == 1     \* longest time the consumer keeps a frame
MaxYields == 10     \* frames of one stream that are followed

\* ---------------------------------------------------------------- inputs
Channels == {"front", "back"}
Frames == {"f1", "f2"}
None == "None"
Unbound == "Unbound"

\* A file name <name>_<stamp>.avi; the stamp is the zero-padded text that
\* strftime produces, kept as its digits.
Format(t) == <<t \div 10, t % 10>>

Stamps == {Format(t) : t \in (MinClock - MaxOld)..MaxClock}

FileNames == [name : Channels, stamp : Stamps]

\* the value of `filepath` before filepath_generator has yielded one
NoPath == [name |-> "", stamp |-> <<>>]

\* str.__lt__ on two names of the same channel: lexicographic on the digits.
LexLess(a, b) ==
    \/ a.stamp[1] < b.stamp[1]
    \/ a.stamp[1] = b.stamp[1] /\ a.stamp[2] < b.stamp[2]

VARIABLES
    channels,    \* main: the channel tokens of the command line
    fps,         \* main: the fps option
    feed,        \* the frames the camera endpoints can serve
    recorders,   \* main: the list of Recorder objects, by channel name
    cache,       \* Recorder.cache
    duration,    \* IPCamera.duration
    mpc,         \* main: position
    idx,         \* main: index of the recorder the current loop is at
    now,         \* the wall clock
    dir,         \* the files of the output directory
    pc,          \* Recorder thread: position
    ctx,         \* who called next_frame: "first" (run) or "iter" (__iter__)
    quit,        \* Recorder.quit / IPCamera.quit (the same Event)
    previous,    \* IPCamera.previous
    image,       \* the value next_frame returned to its caller
    fetched,     \* outcome of the last fetch of the current next_frame call
    path,        \* the file name filepath_generator yielded
    video,       \* run: the VideoWriter bound to `video` (0: none)
    open,        \* VideoWriter objects that are open
    created,     \* history: the file names this run has created
    endTime,     \* __iter__: end_time
    delFailed,   \* history: an os.remove of this channel has failed
    emptyStart,  \* history: the directory was empty when the program started
    writeFails,  \* history: video.write failures in a row, up to now
    pace         \* __iter__ of one stream: its locals and its fine clock

vars == <<channels, fps, feed, recorders, cache, duration, mpc, idx, now, dir, pc, ctx, quit,
          previous, image, fetched, path, video, open, created, endTime,
          delFailed, emptyStart, writeFails, pace>>

cfgVars == <<channels, fps, feed, recorders, cache, duration, pace>>
mainVars == <<cfgVars, mpc, idx>>
fileVars == <<dir, path, video, open, created, delFailed, emptyStart,
              writeFails>>
frameVars == <<previous, image, fetched>>

Configured == {recorders[i] : i \in 1..Len(recorders)}

OldFiles(chs) ==
    {f \in FileNames : f.name \in chs
                       /\ \E t \in (MinClock - MaxOld)..(MinClock - 1) :
                              f.stamp = Format(t)}

\* A channel token is kept as its pieces: text, and "=" for each equals
\* sign in it.
Token(name) == <<name, "=", "uri">>

\* channel.split('='): the pieces between the equals signs
RECURSIVE Split(_)
Split(tok) ==
    IF tok = <<>>
    THEN << <<>> >>
    ELSE LET rest == Split(Tail(tok))
         IN  IF Head(tok) = "="
             THEN << <<>> >> \o rest
             ELSE << <<Head(tok)>> \o Head(rest) >> \o Tail(rest)

\* the text of one piece
Text(piece) == IF piece = <<>> THEN "" ELSE piece[1]

\* the tokens a command line is made of: two well-formed ones, one
\* without an equals sign and one with two
TokenSet ==
    {Token("front"), Token("back"), <<"badtoken">>,
     <<"back", "=", "uri", "=", "x">>}

\* command lines of at most MaxTokens tokens that name no channel twice
TokenLists ==
    {t \in UNION {[1..n -> TokenSet] : n \in 0..MaxTokens} :
        \A i, j \in 1..Len(t) : i # j => t[i][1] # t[j][1]}

\* values of the fps option
FpsValues == {-1, 0, 1}

\* no thread is started, no camera has delivered, nothing is recorded
\* __iter__, lines 53-56, for a stream that starts at time 0 of the pacing
\* clock with 1/fps = p.  `slept` is the argument of the last time.sleep
\* (NoSleep: the tick did not call it), `yields` counts the frames yielded,
\* `prev_yield` is the time of the yield before the last one and `due`
\* the time at which a loop that makes up for lost time would have yielded
\* the last frame: n * period, or later when the frame was not ready.
NoSleep == 0 - 1

StreamStart(p) ==
    [period |-> p, clock |-> 0, pos |-> "fetch",
     start_time |-> 0, yield_correction |-> 0, start_yield_time |-> 0,
     elapsed_time |-> 0, slept |-> NoSleep,
     yields |-> 0, prev_yield |-> 0, due |-> 0]

WorkersInit ==
    /\ now = MinClock
    /\ pc = [c \in Channels |-> "idle"]
    /\ ctx = [c \in Channels |-> "first"]
    /\ quit = [c \in Channels |-> FALSE]
    /\ previous = [c \in Channels |-> None]
    /\ image = [c \in Channels |-> Unbound]
    /\ fetched = [c \in Channels |-> "none"]
    /\ path = [c \in Channels |-> NoPath]
    /\ video = [c \in Channels |-> 0]
    /\ open = [c \in Channels |-> {}]
    /\ created = [c \in Channels |-> {}]
    /\ endTime = [c \in Channels |-> 0]
    /\ delFailed = [c \in Channels |-> FALSE]
    /\ writeFails = [c \in Channels |-> 0]

\* main has built the recorders of chanSeq and is about to start them
InitFrom(chanSeq, oldFiles, caches, durations, feeds) ==
    /\ channels = [i \in 1..Len(chanSeq) |-> Token(chanSeq[i])]
    /\ fps = 1
    /\ feed \in feeds
    /\ recorders = chanSeq
    /\ cache \in caches
    /\ duration \in durations
    /\ mpc = "start"
    /\ idx = 1
    /\ dir \in SUBSET oldFiles
    /\ emptyStart = (dir = {})
    /\ WorkersInit

InitWith(chanSeq, oldFiles, caches, durations) ==
    /\ InitFrom(chanSeq, oldFiles, caches, durations, {Frames})
    /\ pace = StreamStart(1)

Init ==
    InitWith(<<"front">>, OldFiles({"front"}), 1..MaxCache, (-1)..MaxDuration)

\* main is entered with a command line: nothing is built yet
InitConfig ==
    /\ channels \in TokenLists
    /\ fps \in FpsValues
    /\ feed = {"f1"}
    /\ recorders = <<>>
    /\ cache = 1
    /\ duration = 0
    /\ mpc = "parse"
    /\ idx = 1
    /\ dir = {}
    /\ emptyStart = TRUE
    /\ pace = StreamStart(1)
    /\ WorkersInit

\* ------------------------------------------------------------------ clock
Tick ==
    /\ now < MaxClock
    /\ now' = now + 1
    /\ UNCHANGED <<mainVars, fileVars, frameVars, pc, ctx, quit, endTime>>

\* ------------------------------------------------------------------- main
Terminated(c) == pc[c] \in {"stopped", "dead"}

\* `name, uri = channel.split('=')` unpacks only a list of two pieces
Unpacks(tok) == Len(Split(tok)) = 2

\* IPCamera.__init__: float(fps); 1.0 / self.fps raises for fps = 0
CameraBuilds == fps # 0

\* ParseChannel with the recorder started as soon as it is built
ParseChannelStarts ==
    /\ mpc = "parse"
    /\ idx <= Len(channels)
    /\ IF Unpacks(channels[idx]) /\ CameraBuilds
       THEN /\ recorders' = Append(recorders, Text(Split(channels[idx])[1]))
            /\ pc' = [pc EXCEPT ![Text(Split(channels[idx])[1])] = "run"]
            /\ idx' = idx + 1
            /\ UNCHANGED mpc
       ELSE /\ mpc' = "config_error"
            /\ UNCHANGED <<recorders, idx, pc>>
    /\ UNCHANGED <<channels, fps, feed, cache, duration, pace, now, fileVars,
                   frameVars, ctx, quit, endTime>>

\* for channel in channels: split the token and build its Recorder; any
\* exception becomes Exception("Invalid channel ...") and main unwinds
ParseChannel ==
    /\ mpc = "parse"
    /\ idx <= Len(channels)
    /\ IF Unpacks(channels[idx]) /\ CameraBuilds
       THEN /\ recorders' = Append(recorders, Text(Split(channels[idx])[1]))
            /\ idx' = idx + 1
            /\ UNCHANGED mpc
       ELSE /\ mpc' = "config_error"
            /\ UNCHANGED <<recorders, idx>>
    /\ UNCHANGED <<channels, fps, feed, cache, duration, pace, now, fileVars,
                   frameVars, pc, ctx, quit, endTime>>

\* the status main passes to sys.exit when no recorder was built
ExitStatus == -1

\* `if not recorders`: print and sys.exit(-1); otherwise go on to start
ParseDone ==
    /\ mpc = "parse"
    /\ idx > Len(channels)
    /\ mpc' = IF recorders = <<>> THEN "sys_exit" ELSE "start"
    /\ idx' = 1
    /\ UNCHANGED <<cfgVars, now, fileVars, frameVars, pc, ctx, quit, endTime>>

\* for recorder in recorders: recorder.start()
StartRecorder ==
    /\ mpc = "start"
    /\ idx <= Len(recorders)
    /\ pc' = [pc EXCEPT ![recorders[idx]] = "run"]
    /\ idx' = idx + 1
    /\ UNCHANGED <<cfgVars, mpc, now, fileVars, frameVars,
                   ctx, quit, endTime>>

\* the start loop is over: enter the try block and sleep
EnterTry ==
    /\ mpc = "start"
    /\ idx > Len(recorders)
    /\ mpc' = "wait"
    /\ UNCHANGED <<cfgVars, idx, now, fileVars, frameVars,
                   pc, ctx, quit, endTime>>

\* The stop condition: KeyboardInterrupt is raised in the main thread.
\* Inside the try block the finally clause runs; before it (the loops that
\* build and start the recorders are outside the try statement) main
\* unwinds at once.
Interrupt ==
    /\ mpc \in {"parse", "start", "wait"}
    /\ mpc' = IF mpc = "wait" THEN "fin_set" ELSE "unwound"
    /\ idx' = IF mpc = "wait" THEN 1 ELSE idx
    /\ UNCHANGED <<cfgVars, now, fileVars, frameVars,
                   pc, ctx, quit, endTime>>

\* finally: recorder.quit.set()
FinSet ==
    /\ mpc = "fin_set"
    /\ quit' = [quit EXCEPT ![recorders[idx]] = TRUE]
    /\ mpc' = "fin_join"
    /\ UNCHANGED <<cfgVars, idx, now, fileVars, frameVars,
                   pc, ctx, endTime>>

\* finally: recorder.join() returns once the thread has terminated
FinJoin ==
    /\ mpc = "fin_join"
    /\ Terminated(recorders[idx])
    /\ idx' = idx + 1
    /\ mpc' = IF idx = Len(recorders) THEN "unwound" ELSE "fin_set"
    /\ UNCHANGED <<cfgVars, now, fileVars, frameVars,
                   pc, ctx, quit, endTime>>

Main == StartRecorder \/ EnterTry \/ Interrupt \/ FinSet \/ FinJoin

\* ------------------------------------------------------- Recorder thread
\* EndThread with the writer kept alive by another reference: not released
EndThreadLeak(c, how) ==
    /\ pc' = [pc EXCEPT ![c] = how]
    /\ open' = open
    /\ video' = [video EXCEPT ![c] = 0]
    /\ endTime' = [endTime EXCEPT ![c] = 0]
    /\ fetched' = [fetched EXCEPT ![c] = "none"]

\* The thread ends: run()'s frame is torn down and the VideoWriter that
\* `video` refers to loses its last reference and is released.
EndThread(c, how) ==
    /\ pc' = [pc EXCEPT ![c] = how]
    /\ open' = [open EXCEPT ![c] = @ \ {video[c]}]
    /\ video' = [video EXCEPT ![c] = 0]
    /\ endTime' = [endTime EXCEPT ![c] = 0]
    /\ fetched' = [fetched EXCEPT ![c] = "none"]

\* an exception leaves run(): the thread terminates with a traceback
Raise(c) ==
    /\ EndThread(c, "dead")
    /\ UNCHANGED <<mainVars, now, dir, path, created, delFailed, emptyStart, writeFails,
                   previous, image, ctx, quit>>

\* next_frame returns `img` to its caller
Return(c, img) ==
    /\ image' = [image EXCEPT ![c] = img]
    /\ pc' = [pc EXCEPT ![c] = IF ctx[c] = "first" THEN "shape" ELSE "sleep"]

\* run: atexit.register(...); image = self.camera.next_frame()
Run(c) ==
    /\ pc[c] = "run"
    /\ pc' = [pc EXCEPT ![c] = "nf_loop"]
    /\ ctx' = [ctx EXCEPT ![c] = "first"]
    /\ UNCHANGED <<mainVars, now, fileVars, frameVars, quit, endTime>>

\* next_frame: `while not self.quit.is_set()`.  When the flag is set the
\* loop body is skipped and `return image` reads a local that this call
\* never bound: UnboundLocalError.
NfLoop(c) ==
    /\ pc[c] = "nf_loop"
    /\ IF quit[c]
       THEN Raise(c)
       ELSE /\ pc' = [pc EXCEPT ![c] = "nf_fetch"]
            /\ UNCHANGED <<mainVars, now, fileVars, frameVars, ctx, quit,
                           endTime>>

\* next_frame: requests.get and process_jpg succeed
FetchOk(c) ==
    /\ pc[c] = "nf_fetch"
    /\ \E f \in feed :
          /\ previous' = [previous EXCEPT ![c] = f]
          /\ Return(c, f)
    /\ fetched' = [fetched EXCEPT ![c] = "ok"]
    /\ UNCHANGED <<mainVars, now, fileVars, ctx, quit, endTime>>

\* FetchFail with the except clause re-raising whatever is cached
FetchFailRaises(c) ==
    /\ pc[c] = "nf_fetch"
    /\ Raise(c)

\* FetchFail with a failure that is fatal whenever nothing is cached
FetchFailFatal(c) ==
    /\ pc[c] = "nf_fetch"
    /\ IF previous[c] = None
       THEN Raise(c)
       ELSE /\ Return(c, previous[c])
            /\ fetched' = [fetched EXCEPT ![c] = "fail"]
            /\ UNCHANGED <<mainVars, now, fileVars, previous, ctx, quit,
                           endTime>>

\* FetchFail with `image = self.previous` whether or not a frame is cached
FetchFailNull(c) ==
    /\ pc[c] = "nf_fetch"
    /\ Return(c, previous[c])
    /\ fetched' = [fetched EXCEPT ![c] = "fail"]
    /\ UNCHANGED <<mainVars, now, fileVars, previous, ctx, quit, endTime>>

\* next_frame: requests.get or process_jpg raises; the except clause
FetchFail(c) ==
    /\ pc[c] = "nf_fetch"
    /\ IF previous[c] = None
       THEN IF quit[c]
            THEN Raise(c)
            ELSE /\ pc' = [pc EXCEPT ![c] = "nf_loop"]
                 /\ fetched' = [fetched EXCEPT ![c] = "fail"]
                 /\ UNCHANGED <<mainVars, now, fileVars, previous, image,
                                ctx, quit, endTime>>
       ELSE /\ Return(c, previous[c])
            /\ fetched' = [fetched EXCEPT ![c] = "fail"]
            /\ UNCHANGED <<mainVars, now, fileVars, previous, ctx, quit,
                           endTime>>

\* run: height, width, _ = image.shape ... codec; enter the for loop
Shape(c) ==
    /\ pc[c] = "shape"
    /\ pc' = [pc EXCEPT ![c] = "fg_loop"]
    /\ fetched' = [fetched EXCEPT ![c] = "none"]
    /\ UNCHANGED <<mainVars, now, fileVars, previous, image, ctx, quit,
                   endTime>>

\* Names without the pattern: every name of the directory
NamesUnfiltered(c) == {f \in dir : f.name \in Channels}

\* the names of the directory that match this channel's pattern
Names(c) == {f \in dir : f.name = c}

\* names.sort(); names[0:rm_count]
Surplus(names, rmCount) ==
    IF rmCount > 0
    THEN {f \in names : Cardinality({g \in names : LexLess(g, f)}) < rmCount}
    ELSE {}

\* FgLoop with `while True`: the quit flag is not looked at
FgLoopNoQuit(c) ==
    /\ pc[c] = "fg_loop"
    /\ \E failed \in SUBSET Surplus(Names(c), Cardinality(Names(c)) - cache) :
          /\ dir' = dir \ (Surplus(Names(c), Cardinality(Names(c)) - cache) \ failed)
          /\ delFailed' = [delFailed EXCEPT ![c] = @ \/ failed # {}]
    /\ path' = [path EXCEPT ![c] = [name |-> c, stamp |-> Format(now)]]
    /\ pc' = [pc EXCEPT ![c] = "open"]
    /\ UNCHANGED <<mainVars, now, video, open, created, emptyStart, writeFails,
                   frameVars, ctx, quit, endTime>>

\* FgLoop without the try/except of lines 180-184: a failing os.remove
\* leaves the generator and run()
FgLoopFatalDelete(c) ==
    /\ pc[c] = "fg_loop"
    /\ \E failed \in SUBSET Surplus(Names(c), Cardinality(Names(c)) - cache) :
          /\ dir' = dir \ (Surplus(Names(c), Cardinality(Names(c)) - cache) \ failed)
          /\ delFailed' = [delFailed EXCEPT ![c] = @ \/ failed # {}]
          /\ IF quit[c] \/ failed # {}
             THEN /\ EndThread(c, IF quit[c] THEN "stopped" ELSE "dead")
                  /\ UNCHANGED path
             ELSE /\ path' = [path EXCEPT ![c] = [name |-> c, stamp |-> Format(now)]]
                  /\ pc' = [pc EXCEPT ![c] = "open"]
                  /\ UNCHANGED <<video, open, fetched, endTime>>
    /\ UNCHANGED <<mainVars, now, created, emptyStart, writeFails,
                   previous, image, ctx, quit>>

\* filepath_generator: `while not self.quit.is_set()`, the cache cleanup
\* and the next file name.  When the flag is set the generator is
\* exhausted, run's for loop ends and run returns.
FgLoop(c) ==
    /\ pc[c] = "fg_loop"
    /\ IF quit[c]
       THEN /\ EndThread(c, "stopped")
            /\ UNCHANGED <<mainVars, now, dir, path, created, delFailed,
                           emptyStart, writeFails, previous, image, ctx, quit>>
       ELSE /\ \E failed \in SUBSET Surplus(Names(c), Cardinality(Names(c)) - cache) :
                  /\ dir' = dir \ (Surplus(Names(c), Cardinality(Names(c)) - cache) \ failed)
                  /\ delFailed' = [delFailed EXCEPT ![c] = @ \/ failed # {}]
            /\ path' = [path EXCEPT ![c] = [name |-> c, stamp |-> Format(now)]]
            /\ pc' = [pc EXCEPT ![c] = "open"]
            /\ UNCHANGED <<mainVars, now, video, open, created, emptyStart, writeFails,
                           frameVars, ctx, quit, endTime>>

\* the identity of the VideoWriter object that line 202 constructs: one
\* that is not the object `video` refers to
NewWriter(c) == IF video[c] = 1 THEN 2 ELSE 1

\* run: cv2.VideoWriter(filepath, ...) is constructed: the file is created
\* and the new encoder is open; `video` still refers to the previous one.
OpenSegment(c) ==
    /\ pc[c] = "open"
    /\ created' = [created EXCEPT ![c] = @ \cup {path[c]}]
    /\ open' = [open EXCEPT ![c] = @ \cup {NewWriter(c)}]
    /\ dir' = dir \cup {path[c]}
    /\ pc' = [pc EXCEPT ![c] = "bind"]
    /\ UNCHANGED <<mainVars, now, path, video, delFailed, emptyStart, writeFails,
                   frameVars, ctx, quit, endTime>>

\* run: `video = ...` binds the new writer, which releases the previous
\* one; then `for frame in self.camera` starts __iter__ (end_time).
Bind(c) ==
    /\ pc[c] = "bind"
    /\ video' = [video EXCEPT ![c] = NewWriter(c)]
    /\ open' = [open EXCEPT ![c] = @ \ {video[c]}]
    /\ endTime' = [endTime EXCEPT ![c] = now + duration]
    /\ pc' = [pc EXCEPT ![c] = "it_loop"]
    /\ UNCHANGED <<mainVars, now, dir, path, created, delFailed, emptyStart, writeFails,
                   frameVars, ctx, quit>>

\* __iter__: `while not self.quit.is_set()`; image = self.next_frame()
ItLoop(c) ==
    /\ pc[c] = "it_loop"
    /\ IF quit[c]
       THEN /\ pc' = [pc EXCEPT ![c] = "fg_loop"]
            /\ endTime' = [endTime EXCEPT ![c] = 0]
            /\ UNCHANGED ctx
       ELSE /\ pc' = [pc EXCEPT ![c] = "nf_loop"]
            /\ ctx' = [ctx EXCEPT ![c] = "iter"]
            /\ UNCHANGED endTime
    /\ UNCHANGED <<mainVars, now, fileVars, frameVars, quit>>

\* __iter__: the pacing step (warning or time.sleep)
Sleep(c) ==
    /\ pc[c] = "sleep"
    /\ pc' = [pc EXCEPT ![c] = "yield"]
    /\ fetched' = [fetched EXCEPT ![c] = "none"]
    /\ UNCHANGED <<mainVars, now, fileVars, previous, image, ctx, quit,
                   endTime>>

\* __iter__: yield image; run: video.write(frame)
Write(c) ==
    /\ pc[c] = "yield"
    /\ pc' = [pc EXCEPT ![c] = "after"]
    /\ writeFails' = [writeFails EXCEPT ![c] = 0]
    /\ UNCHANGED <<mainVars, now, dir, path, video, open, created, delFailed,
                   emptyStart, frameVars, ctx, quit, endTime>>

\* run: video.write(frame) raises.  Nothing in run catches it: the
\* exception leaves run() and the thread terminates.
WriteFail(c) ==
    /\ pc[c] = "yield"
    /\ EndThread(c, "dead")
    /\ writeFails' = [writeFails EXCEPT ![c] = @ + 1]
    /\ UNCHANGED <<mainVars, now, dir, path, created, delFailed, emptyStart,
                   previous, image, ctx, quit>>

\* AfterYield without the `if self.duration > 0` guard
AfterYieldUnguarded(c) ==
    /\ pc[c] = "after"
    /\ IF now > endTime[c]
       THEN /\ pc' = [pc EXCEPT ![c] = "fg_loop"]
            /\ endTime' = [endTime EXCEPT ![c] = 0]
       ELSE /\ pc' = [pc EXCEPT ![c] = "it_loop"]
            /\ UNCHANGED endTime
    /\ UNCHANGED <<mainVars, now, fileVars, frameVars, ctx, quit>>

\* __iter__: after the yield: is this recording session complete?
AfterYield(c) ==
    /\ pc[c] = "after"
    /\ IF duration > 0 /\ now > endTime[c]
       THEN /\ pc' = [pc EXCEPT ![c] = "fg_loop"]
            /\ endTime' = [endTime EXCEPT ![c] = 0]
       ELSE /\ pc' = [pc EXCEPT ![c] = "it_loop"]
            /\ UNCHANGED endTime
    /\ UNCHANGED <<mainVars, now, fileVars, frameVars, ctx, quit>>

Worker(c) ==
    \/ Run(c) \/ NfLoop(c) \/ FetchOk(c) \/ FetchFail(c) \/ Shape(c)
    \/ FgLoop(c) \/ OpenSegment(c) \/ Bind(c) \/ ItLoop(c) \/ Sleep(c)
    \/ Write(c) \/ WriteFail(c) \/ AfterYield(c)

Next == Tick \/ Main \/ \E c \in Channels : Worker(c)

Spec == Init /\ [][Next]_vars

\* Every step of a thread takes finite time (the fetch has a timeout, the
\* pacing sleep is at most 1/fps): a thread that can step does step.
FairSpec == Spec /\ \A c \in Channels : WF_vars(Worker(c))

\* main from its first line, for every command line of TokenLists
NextConfig == ParseChannel \/ ParseDone \/ Next

SpecConfig == InitConfig /\ [][NextConfig]_vars

\* Two channels, started in the order given on the command line, with a
\* directory that is empty at the start, cache 1, one-second segments and
\* cameras that show a still scene.
InitTwo ==
    /\ InitFrom(<<"front", "back">>, {}, {1}, {1}, {{"f1"}})
    /\ pace = StreamStart(1)

SpecTwo == InitTwo /\ [][Next]_vars

\* ---------------------------------------------------------------- pacing
\* One stream of __iter__ on a clock fine enough to measure a tick.  Time
\* passes in next_frame, in time.sleep and while the consumer holds the
\* frame; the stream has no duration and the quit flag stays clear.
recVars == <<channels, fps, feed, recorders, cache, duration, mpc, idx, now,
             fileVars, frameVars, pc, ctx, quit, endTime>>

\* line 59: image = self.next_frame() takes d units
IterFetch ==
    /\ pace.pos = "fetch"
    /\ pace.yields < MaxYields
    /\ \E d \in 0..MaxFetch :
          pace' = [pace EXCEPT !.clock = @ + d, !.pos = "pace"]
    /\ UNCHANGED recVars

\* lines 62-69 (Elapsed is line 62).  1.0 / elapsed_time raises ZeroDivisionError for 0;
\* `fps < self.fps` is 1/elapsed_time < 1/period, that is
\* elapsed_time > period; otherwise time.sleep(period - elapsed_time).
\* Elapsed without the yield correction
ElapsedUncorrected == pace.clock - pace.start_time

Elapsed == pace.clock - pace.start_time + pace.yield_correction

IterPace ==
    /\ pace.pos = "pace"
    /\ pace' =
          IF Elapsed = 0
          THEN [pace EXCEPT !.elapsed_time = 0, !.pos = "dead"]
          ELSE IF Elapsed > pace.period
          THEN [pace EXCEPT !.elapsed_time = Elapsed, !.slept = NoSleep,
                            !.pos = "yield"]
          ELSE [pace EXCEPT !.elapsed_time = Elapsed,
                            !.slept = pace.period - Elapsed,
                            !.clock = @ + (pace.period - Elapsed),
                            !.pos = "yield"]
    /\ UNCHANGED recVars

\* the later of two times
Later(a, b) == IF a >= b THEN a ELSE b

\* lines 71-72: start_yield_time = time.time(); yield image
\* (elapsed_time is the time the consumer and next_frame took since the
\* previous yield)
IterYield ==
    /\ pace.pos = "yield"
    /\ pace' = [pace EXCEPT !.prev_yield = pace.start_yield_time,
                            !.due = Later((pace.yields + 1) * pace.period,
                                          pace.due + pace.elapsed_time),
                            !.start_yield_time = pace.clock,
                            !.yields = @ + 1,
                            !.pos = "consume"]
    /\ UNCHANGED recVars

\* the consumer keeps the frame for e units and asks for the next one;
\* lines 73-74: start_time = time.time(); yield_correction = ...
IterResume ==
    /\ pace.pos = "consume"
    /\ \E e \in 0..MaxConsume :
          pace' = [pace EXCEPT !.clock = @ + e,
                              !.start_time = pace.clock + e,
                              !.yield_correction =
                                  pace.clock + e - pace.start_yield_time,
                              !.pos = "fetch"]
    /\ UNCHANGED recVars

InitPace ==
    /\ InitFrom(<<"front">>, {}, {1}, {0}, {{"f1"}})
    /\ pace \in {StreamStart(p) : p \in 1..MaxPeriod}

NextPace == IterFetch \/ IterPace \/ IterYield \/ IterResume

SpecPace == InitPace /\ [][NextPace]_vars

\* ----------------------------------------------------------------- claims
\* the state right after a rotation: the cleanup has run and line 202 has
\* created the next segment's file
Rotated(c) == pc[c] = "bind" /\ Cardinality(created[c]) >= 2

\* C1: immediately after a rotation (cleanup run, next segment file opened,
\* every deletion having succeeded) the channel has at most `cache` files.
C1_RetentionBound ==
    \A c \in Channels :
        (Rotated(c) /\ ~delFailed[c]) => Cardinality(Names(c)) <= cache

\* a step in which the fetch of next_frame fails: the thread leaves the
\* fetch otherwise than by a successful download and decode
FetchFails(c) ==
    pc[c] = "nf_fetch" /\ pc'[c] # "nf_fetch" /\ fetched'[c] # "ok"

\* C2: a fetch that fails while a frame is cached makes next_frame return
\* the cached frame, and leaves the cached frame as it was.
C2_StaleFrameFallback ==
    [][\A c \in Channels :
          (FetchFails(c) /\ previous[c] # None)
          => /\ image'[c] = previous[c]
             /\ previous'[c] = previous[c]
             /\ pc'[c] \in {"shape", "sleep"}]_vars

C2_Witness ==
    \E c \in Channels :
        /\ pc[c] = "sleep" /\ fetched[c] = "fail"
        /\ previous[c] \in Frames /\ image[c] = previous[c]

\* C3: once a channel's quit flag is set, its thread eventually terminates.
C3_ShutdownLiveness ==
    \A c \in Channels : quit[c] ~> Terminated(c)

C3_Witness ==
    \E c \in Channels :
        quit[c] /\ pc[c] = "dead" /\ previous[c] = None /\ ctx[c] = "first"

\* C4: when main has returned or unwound, every started channel has its
\* quit flag set and its thread terminated.
C4_SupervisorWaits ==
    mpc = "unwound" =>
        \A c \in Configured : pc[c] # "idle" => quit[c] /\ Terminated(c)

\* C5: a thread that has ended after the quit flag was set has no open
\* encoder left.
C5_SealedOnStop ==
    \A c \in Channels :
        (Terminated(c) /\ quit[c]) => open[c] = {} /\ video[c] = 0

C5_Witness ==
    \E c \in Channels :
        pc[c] = "stopped" /\ quit[c] /\ created[c] # {} /\ open[c] = {}

\* C6: a channel has at most one open encoder at any instant.
C6_OneActiveSegment ==
    \A c \in Channels : Cardinality(open[c]) <= 1

\* C7: no frame is yielded and written once the quit flag is set.
C7_NoWriteAfterQuit ==
    [][\A c \in Channels :
          (pc[c] = "yield" /\ pc'[c] = "after") => ~quit[c]]_vars

\* a fetch fails with nothing cached
FailsUncached(c) == FetchFails(c) /\ previous[c] = None

\* C8, as stated: a failing fetch with nothing cached and the quit flag
\* clear is fatal: the failure is raised and the thread aborts.
C8_FirstFetchFatal ==
    [][\A c \in Channels :
          (FailsUncached(c) /\ ~quit[c]) => pc'[c] = "dead"]_vars

\* C8, amended: a failing fetch with nothing cached is retried while the
\* quit flag is clear (the caller keeps waiting in next_frame) and is
\* raised only when the flag is set.
C8_FirstFetchRetried ==
    [][\A c \in Channels :
          FailsUncached(c) =>
              IF quit[c]
              THEN pc'[c] = "dead"
              ELSE pc'[c] = "nf_loop" /\ ctx'[c] = ctx[c]
                   /\ image'[c] = image[c]]_vars

C8_Witness ==
    \E c \in Channels :
        /\ pc[c] = "nf_loop" /\ fetched[c] = "fail" /\ ctx[c] = "first"
        /\ previous[c] = None /\ ~quit[c]

\* C9: every normal return of next_frame delivers a frame, the one decoded
\* in that call or the cached one, never an absent one; a failing fetch
\* with nothing cached raises or retries.
C9_NeverNullFrame ==
    /\ [](\A c \in Channels :
            pc[c] \in {"shape", "sleep"} =>
                /\ image[c] \in Frames
                /\ image[c] = previous[c]
                /\ fetched[c] \in {"ok", "fail"})
    /\ [][\A c \in Channels :
            FailsUncached(c) => pc'[c] \in {"nf_loop", "dead"}]_vars

C9_Witness ==
    \E c \in Channels :
        /\ pc[c] = "shape" /\ fetched[c] = "ok" /\ quit[c]
        /\ image[c] \in Frames /\ image[c] = previous[c]

\* C10: from an empty directory, after more than `cache` rotations (every
\* deletion having succeeded) exactly `cache` files of the channel remain,
\* and they are the most recently created ones.
C10_RetentionScenario ==
    \A c \in Channels :
        (emptyStart /\ ~delFailed[c] /\ pc[c] = "bind"
         /\ Cardinality(created[c]) > cache)
        => /\ Cardinality(Names(c)) = cache
           /\ Names(c) \subseteq created[c]
           /\ \A f \in Names(c) : \A g \in created[c] \ Names(c) : LexLess(g, f)

\* C11: a write failure that is not the third in a row is logged and
\* skipped: the thread keeps recording into the same segment; only the
\* third failure in a row stops the channel.
C11_WriteFailureTolerated ==
    [][\A c \in Channels :
          (pc[c] = "yield" /\ writeFails'[c] = writeFails[c] + 1)
          => IF writeFails'[c] < 3
             THEN pc'[c] = "after" /\ video'[c] = video[c]
                  /\ open'[c] = open[c]
             ELSE Terminated(c)']_vars

\* everything that belongs to channel d: its thread, its camera and
\* encoder objects, and its files in the directory
ChannelState(d) ==
    <<pc[d], ctx[d], quit[d], previous[d], image[d], fetched[d], path[d],
      video[d], open[d], created[d], endTime[d], delFailed[d], writeFails[d],
      {f \in dir : f.name = d}>>

\* channel c's thread takes a step
ThreadStep(c) == pc[c] # "idle" /\ pc'[c] # pc[c]

C19_FanOutBeforeJoin ==
    mpc = "fin_join" => \A c \in Configured : quit[c]

HasEquals(tok) == \E i \in 1..Len(tok) : tok[i] = "="

\* exactly one equals sign: the token reads name=uri
WellFormed(tok) == Cardinality({i \in 1..Len(tok) : tok[i] = "="}) = 1

\* C13: a thread is started only if there is at least one token and every
\* token reads name=uri; with a token that has no equals sign main ends in
\* the configuration error, with no token in sys.exit with a non-zero
\* status, and in both cases no thread was started.
C13_NoStartOnBadConfig ==
    /\ (\E c \in Channels : pc[c] # "idle")
           => /\ channels # <<>>
              /\ \A i \in 1..Len(channels) : WellFormed(channels[i])
    /\ (\E i \in 1..Len(channels) : ~HasEquals(channels[i]))
           => mpc \in {"parse", "config_error", "unwound"}
    /\ channels = <<>> => mpc \in {"parse", "sys_exit", "unwound"}
    /\ mpc = "sys_exit" => ExitStatus # 0 /\ recorders = <<>>

C13_Witness ==
    /\ mpc = "config_error"
    /\ Len(channels) = 2 /\ WellFormed(channels[1]) /\ ~HasEquals(channels[2])
    /\ Len(recorders) = 1
    /\ \A c \in Channels : pc[c] = "idle"

\* C14: with fps <= 0 no Recorder is built and no thread is started.
C14_NonPositiveFpsRejected ==
    fps <= 0 => recorders = <<>> /\ \A c \in Channels : pc[c] = "idle"

\* the positions of a thread inside a paced stream (__iter__ and the
\* next_frame call and write it drives)
InStream(c) ==
    \/ pc[c] \in {"it_loop", "sleep", "yield", "after"}
    \/ pc[c] \in {"nf_loop", "nf_fetch"} /\ ctx[c] = "iter"

\* C17: end_time is the start of the stream plus the duration; a stream
\* ends either on the quit flag or, after a yield, with duration > 0 and
\* the clock past end_time; with duration <= 0 the channel never opens a
\* second segment.
C17_RotationCondition ==
    /\ [][\A c \in Channels :
            /\ (pc[c] = "bind" /\ pc'[c] = "it_loop")
                   => endTime'[c] = now + duration
            /\ (InStream(c) /\ pc'[c] = "fg_loop" /\ ~quit[c])
                   => pc[c] = "after" /\ duration > 0 /\ now > endTime[c]]_vars
    /\ [](duration <= 0 => \A c \in Channels : Cardinality(created[c]) <= 1)

C17_Witness ==
    \E c \in Channels :
        /\ duration <= 0 /\ ~quit[c] /\ pc[c] = "after"
        /\ now > endTime[c] + 1 /\ Cardinality(created[c]) = 1

\* the cleanup of channel c runs and at least one surplus file is still in
\* the directory afterwards: its os.remove failed
DeleteFails(c) ==
    /\ pc[c] = "fg_loop" /\ pc'[c] # "fg_loop" /\ ~quit[c]
    /\ Surplus(Names(c), Cardinality(Names(c)) - cache) \cap dir' # {}

\* C18: a failed delete of a surplus file does not stop the rotation:
\* nothing but surplus files leaves the directory, the path of the new
\* segment is produced in the same step and the thread goes on to open it.
C18_DeleteFailureNonFatal ==
    [][\A c \in Channels :
          DeleteFails(c) =>
             /\ pc'[c] = "open"
             /\ path'[c] = [name |-> c, stamp |-> Format(now)]
             /\ dir' \subseteq dir
             /\ dir \ dir' \subseteq
                    Surplus(Names(c), Cardinality(Names(c)) - cache)]_vars

\* a frame is written to a segment after a delete failed, and some but not
\* all of the surplus files are gone
C18_Witness ==
    \E c \in Channels :
        /\ delFailed[c] /\ pc[c] = "after" /\ ~quit[c]
        /\ path[c] \in created[c]
        /\ Cardinality(Names(c)) > cache + 1
        /\ \E f \in OldFiles({c}) : f \notin dir

\* C20: a thread that holds a cached frame never dies in next_frame: with
\* `previous` bound, no step taken at the head of next_frame's loop ends
\* the thread with an exception.
C20_NoRaiseWithCachedFrame ==
    [][\A c \in Channels :
          (pc[c] = "nf_loop" /\ previous[c] # None) => pc'[c] # "dead"]_vars

\* C16: a tick whose elapsed time is positive and at most 1/fps sleeps
\* exactly 1/fps - elapsed, which is not negative, and its yield comes
\* exactly 1/fps after the yield before it; a tick whose elapsed time
\* exceeds 1/fps does not sleep.
C16_PacingStep ==
    /\ pace.pos \in {"yield", "consume"} =>
          IF pace.elapsed_time > pace.period
          THEN pace.slept = NoSleep
          ELSE /\ pace.elapsed_time > 0
               /\ pace.slept = pace.period - pace.elapsed_time
               /\ pace.slept >= 0
    /\ (pace.pos = "consume" /\ pace.yields >= 2
            /\ pace.elapsed_time <= pace.period)
          => pace.start_yield_time - pace.prev_yield = pace.period

\* a tick that follows a slow consumer sleeps and is yielded on time
C16_Witness ==
    /\ pace.pos = "consume" /\ pace.yields >= 2
    /\ pace.yield_correction > 0
    /\ pace.slept > 0
    /\ pace.start_yield_time - pace.prev_yield = pace.period

\* C15: the n-th frame is yielded within a fixed error of n * (1/fps):
\* whenever the ticks so far left a loop that makes up for lost time able
\* to yield the n-th frame at n * (1/fps), the frame is late by no more
\* than the longest time one tick can take.
C15_LagBounded ==
    (pace.pos = "consume" /\ pace.due = pace.yields * pace.period)
       => pace.start_yield_time - pace.yields * pace.period
             <= MaxFetch + MaxConsume
====
